---- MODULE Spec2Model ----
(***************************************************************************)
(* A model of the metrics-acquisition core of heim:                        *)
(*   - heim-cpu   sys/linux/mod.rs      the lazily initialised CLOCK_TICKS  *)
(*   - heim-disk  sys/linux/counters.rs the /proc/diskstats line parser and *)
(*                                      the physical-device stream filter   *)
(*   - heim-common errors.rs            the Error type and its conversions  *)
(*   - heim-disk / heim-net sys/mod.rs  the cfg_if provider dispatch        *)
(* Each part has its own specification (SpecClock, SpecParse, SpecStream,   *)
(* SpecErr, SpecCfg) over its own variables; the other variables stay put.  *)
(***************************************************************************)
EXTENDS Integers, Sequences, FiniteSets, TLC

VARIABLES
    once_state,   \* std::sync::Once behind the lazy_static: its state word
    cell,         \* the lazy cell: <<>> is None, <<v>> is Some(v)
    tpc,          \* per thread: where it is inside an access to CLOCK_TICKS
    local,        \* per thread: the value clock_ticks() returned to it
    observed,     \* per thread: what each finished access gave: <<>> a panic, <<v>> the value
    queries,      \* how many times the body of clock_ticks() has run
    overflow_checks, \* the build: TRUE when integer overflow panics (debug builds)
    line,         \* the text line handed to IoCounters::from_str, as characters
    parsed,       \* what from_str returned for it
    source_exists,\* whether /proc/diskstats can be opened
    table,        \* the lines of /proc/diskstats
    pos,          \* how many lines io_counters() has read
    inflight,     \* the is_storage_device futures created and not yet resolved
    blocked,      \* the last poll of the probe returned NotReady
    probed,       \* the probes that completed, in order, with their outcome
    yielded,      \* the records io_counters_physical() has yielded
    status,       \* running, done, failed, panicked or dropped
    failure,      \* what ended the enumeration, when something did
    err_cause,    \* the underlying failure at hand, NoCause when there is none
    err_via,      \* how the Error was made: "From", "new", "last_os_error"
    err_value,    \* the Error made from it (or the panic)
    err_shown,    \* what Display wrote for the Error
    target_os,    \* cfg(target_os) of the build
    disk_pc,      \* heim-disk sys/mod.rs: the cfg_if block being expanded
    disk_mods,    \* heim-disk sys/mod.rs: the modules compiled in
    net_pc,       \* heim-net sys/mod.rs: likewise
    net_mods,
    diagnostics   \* the compile errors emitted

clockVars == <<once_state, cell, tpc, local, observed, queries>>
buildVars == <<overflow_checks>>
parseVars == <<line, parsed>>
streamVars == <<source_exists, table, pos, inflight, blocked, probed, yielded,
                status, failure>>
errVars == <<err_cause, err_via, err_value, err_shown>>
cfgVars == <<target_os, disk_pc, disk_mods, net_pc, net_mods, diagnostics>>
vars == <<clockVars, buildVars, parseVars, streamVars, errVars, cfgVars>>
notClock == <<buildVars, parseVars, streamVars, errVars, cfgVars>>
notParse == <<clockVars, streamVars, errVars, cfgVars>>
notStream == <<clockVars, buildVars, parseVars, errVars, cfgVars>>
notErr == <<clockVars, buildVars, parseVars, streamVars, cfgVars>>
notCfg == <<clockVars, buildVars, parseVars, streamVars, errVars>>

----------------------------------------------------------------------------
(* Bounds *)
NumThreads == 2
MaxAccesses == 2
MaxTokens == 14
MaxLines == 3

Threads == 1..NumThreads

(* Values libc::sysconf(_SC_CLK_TCK) may return: -1 on error, 0, or a rate. *)
SysconfResults == {-1, 0, 100, 250}

----------------------------------------------------------------------------
(* CLOCK_TICKS                                                             *)

ClockInit ==
    /\ once_state = "INCOMPLETE"
    /\ cell = <<>>
    /\ tpc = [t \in Threads |-> "idle"]
    /\ local = [t \in Threads |-> 0]
    /\ observed = [t \in Threads |-> <<>>]
    /\ queries = 0

ClockIdle == ClockInit

(* A thread dereferences CLOCK_TICKS: Deref::deref -> Lazy::get. *)
Access(t) ==
    /\ tpc[t] = "idle"
    /\ Len(observed[t]) < MaxAccesses
    /\ tpc' = [tpc EXCEPT ![t] = "call_once"]
    /\ UNCHANGED <<once_state, cell, local, observed, queries>>
    /\ UNCHANGED notClock

(* A broken Once: the state is read and written in two steps, so a second
   thread that finds it RUNNING runs the initialiser as well. *)
CallOnceRacy(t) ==
    /\ tpc[t] = "call_once"
    /\ \/ /\ once_state = "COMPLETE"
          /\ tpc' = [tpc EXCEPT ![t] = "deref"]
          /\ UNCHANGED <<once_state, observed>>
       \/ /\ once_state = "POISONED"
          /\ tpc' = [tpc EXCEPT ![t] = "idle"]
          /\ observed' = [observed EXCEPT ![t] = Append(@, <<>>)]
          /\ UNCHANGED once_state
       \/ /\ once_state \in {"INCOMPLETE", "RUNNING"}
          /\ once_state' = "RUNNING"
          /\ tpc' = [tpc EXCEPT ![t] = "init"]
          /\ UNCHANGED observed
    /\ UNCHANGED <<cell, local, queries>>
    /\ UNCHANGED notClock

(* Once::call_once: the fast path on COMPLETE, a panic on POISONED, the
   compare-and-swap INCOMPLETE -> RUNNING that elects the one initialiser,
   and parking while another thread is RUNNING. *)
CallOnce(t) ==
    /\ tpc[t] = "call_once"
    /\ \/ /\ once_state = "COMPLETE"
          /\ tpc' = [tpc EXCEPT ![t] = "deref"]
          /\ UNCHANGED <<once_state, observed>>
       \/ /\ once_state = "POISONED"
          /\ tpc' = [tpc EXCEPT ![t] = "idle"]
          /\ observed' = [observed EXCEPT ![t] = Append(@, <<>>)]
          /\ UNCHANGED once_state
       \/ /\ once_state = "INCOMPLETE"
          /\ once_state' = "RUNNING"
          /\ tpc' = [tpc EXCEPT ![t] = "init"]
          /\ UNCHANGED observed
       \/ /\ once_state = "RUNNING"
          /\ tpc' = [tpc EXCEPT ![t] = "waiting"]
          /\ UNCHANGED <<once_state, observed>>
    /\ UNCHANGED <<cell, local, queries>>
    /\ UNCHANGED notClock

(* A parked thread is woken when the initialiser has left RUNNING, and
   re-examines the state. *)
Wake(t) ==
    /\ tpc[t] = "waiting"
    /\ once_state # "RUNNING"
    /\ tpc' = [tpc EXCEPT ![t] = "call_once"]
    /\ UNCHANGED <<once_state, cell, local, observed, queries>>
    /\ UNCHANGED notClock

(* An initialiser whose failure leaves the Once re-armed instead of
   poisoned: the next access would run the query again. *)
clock_ticks_retry(t) ==
    /\ tpc[t] = "init"
    /\ queries' = queries + 1
    /\ \E result \in SysconfResults :
          IF result > 0
          THEN /\ local' = [local EXCEPT ![t] = result]
               /\ tpc' = [tpc EXCEPT ![t] = "store"]
               /\ UNCHANGED <<once_state, observed>>
          ELSE /\ once_state' = "INCOMPLETE"
               /\ tpc' = [tpc EXCEPT ![t] = "idle"]
               /\ observed' = [observed EXCEPT ![t] = Append(@, <<>>)]
               /\ UNCHANGED local
    /\ UNCHANGED cell
    /\ UNCHANGED notClock

(* The initialiser: clock_ticks() calls sysconf; a positive result is Ok,
   anything else is Err and .expect() panics.  The panic unwinds through
   call_once, whose guard leaves the Once POISONED. *)
clock_ticks(t) ==
    /\ tpc[t] = "init"
    /\ queries' = queries + 1
    /\ \E result \in SysconfResults :
          IF result > 0
          THEN /\ local' = [local EXCEPT ![t] = result]
               /\ tpc' = [tpc EXCEPT ![t] = "store"]
               /\ UNCHANGED <<once_state, observed>>
          ELSE /\ once_state' = "POISONED"
               /\ tpc' = [tpc EXCEPT ![t] = "idle"]
               /\ observed' = [observed EXCEPT ![t] = Append(@, <<>>)]
               /\ UNCHANGED local
    /\ UNCHANGED cell
    /\ UNCHANGED notClock

(* The initialiser stores Some(value) and call_once publishes COMPLETE. *)
Complete(t) ==
    /\ tpc[t] = "store"
    /\ cell' = <<local[t]>>
    /\ once_state' = "COMPLETE"
    /\ tpc' = [tpc EXCEPT ![t] = "deref"]
    /\ UNCHANGED <<local, observed, queries>>
    /\ UNCHANGED notClock

(* Lazy::get returns a reference to the stored value. *)
Deref(t) ==
    /\ tpc[t] = "deref"
    /\ observed' = [observed EXCEPT ![t] = Append(@, cell)]
    /\ tpc' = [tpc EXCEPT ![t] = "idle"]
    /\ UNCHANGED <<once_state, cell, local, queries>>
    /\ UNCHANGED notClock

----------------------------------------------------------------------------
(* Unsigned 64-bit integers                                                *)
(* A u64 is four 16-bit limbs, least significant first, so that the        *)
(* arithmetic of the parser keeps its width.                               *)

Base == 2^16

ToU64(n) == <<n % Base, (n \div Base) % Base, 0, 0>>

RECURSIVE MulFrom(_, _, _, _)
(* x * k from limb i on with a carry coming in; one limb longer than x. *)
MulFrom(x, k, i, carry) ==
    IF i > Len(x) THEN <<carry>>
    ELSE LET p == x[i] * k + carry
         IN <<p % Base>> \o MulFrom(x, k, i + 1, p \div Base)

RECURSIVE AddFrom(_, _, _)
AddFrom(x, i, carry) ==
    IF i > Len(x) THEN <<carry>>
    ELSE LET p == x[i] + carry
         IN <<p % Base>> \o AddFrom(x, i + 1, p \div Base)

(* The exact product and sum, five limbs. *)
MulExact(x, k) == MulFrom(x, k, 1, 0)
AddExact(x, d) == AddFrom(x, 1, d)

Low64(w) == SubSeq(w, 1, 4)
Overflows(w) == w[5] # 0

----------------------------------------------------------------------------
(* str::parse::<u64>: an optional leading '+', then decimal digits, each   *)
(* step checked_mul(10) and checked_add(digit).                            *)

Digits == <<"0", "1", "2", "3", "4", "5", "6", "7", "8", "9">>
IsDigit(c) == \E d \in 1..10 : Digits[d] = c
DigitVal(c) == (CHOOSE d \in 1..10 : Digits[d] = c) - 1

Ok(v) == [tag |-> "Ok", val |-> v]
Err(k) == [tag |-> "Err", kind |-> k]
Panic == [tag |-> "Panic"]

RECURSIVE ParseDigits(_, _, _)
ParseDigits(s, i, acc) ==
    IF i > Len(s) THEN Ok(acc)
    ELSE IF ~IsDigit(s[i]) THEN Err("ParseInt")
    ELSE LET m == MulExact(acc, 10)
         IN IF Overflows(m) THEN Err("ParseInt")
            ELSE LET a == AddExact(Low64(m), DigitVal(s[i]))
                 IN IF Overflows(a) THEN Err("ParseInt")
                    ELSE ParseDigits(s, i + 1, Low64(a))

ParseU64(s) ==
    IF s = <<>> THEN Err("ParseInt")
    ELSE IF s[1] = "+"
         THEN IF Len(s) = 1 THEN Err("ParseInt") ELSE ParseDigits(s, 2, ToU64(0))
         ELSE ParseDigits(s, 1, ToU64(0))

----------------------------------------------------------------------------
(* u64 as f64: exact below 2^53, otherwise rounded to 53 significant bits, *)
(* ties to even.  The result may be 2^64, so it has five limbs.            *)

BitLen16(v) == CHOOSE b \in 0..16 : v < 2^b /\ (b = 0 \/ v >= 2^(b - 1))

AsF64(x) ==
    IF x[4] < 32 THEN x \o <<0>>
    ELSE LET shift == BitLen16(x[4]) - 5
             unit == 2^shift
             r == x[1] % unit
             q == x[1] \div unit
             up == r > unit \div 2 \/ (r = unit \div 2 /\ q % 2 = 1)
             down == [x EXCEPT ![1] = x[1] - r]
         IN IF up THEN AddExact(down, unit) ELSE down \o <<0>>

----------------------------------------------------------------------------
(* IoCounters::from_str                                                    *)

DISK_SECTOR_SIZE == 512

IsSpace(c) == c \in {" ", "\t"}

RECURSIVE SplitFrom(_, _, _)
SplitFrom(s, i, cur) ==
    LET done == IF cur = <<>> THEN <<>> ELSE <<cur>>
    IN IF i > Len(s) THEN done
       ELSE IF IsSpace(s[i]) THEN done \o SplitFrom(s, i + 1, <<>>)
       ELSE SplitFrom(s, i + 1, Append(cur, s[i]))

(* str::split_whitespace: the non-empty runs of non-blank characters. *)
split_whitespace(s) == SplitFrom(s, 1, <<>>)

(* ParseIterator::try_from_next for a String field (at is the number of
   tokens the iterator has passed): the next token, or the structural error
   when the line has run out. *)
try_from_next_string(parts, at) ==
    IF at + 1 > Len(parts) THEN Err("Parse") ELSE Ok(parts[at + 1])

(* ParseIterator::try_from_next for a u64 field. *)
try_from_next_u64(parts, at) ==
    IF at + 1 > Len(parts) THEN Err("Parse") ELSE ParseU64(parts[at + 1])

(* bytes * DISK_SECTOR_SIZE in u64: an overflow panics where the build
   checks overflow and wraps modulo 2^64 where it does not. *)
sectors_to_bytes(bytes, checks) ==
    LET product == MulExact(bytes, DISK_SECTOR_SIZE)
    IN IF Overflows(product) /\ checks THEN Panic ELSE Ok(Low64(product))

(* from_str without the last skip: busy_time read from the token that
   follows the sectors written, the 11th. *)
from_str_skip0(s, checks) ==
    LET parts == split_whitespace(s)
        p0 == 2
        name == try_from_next_string(parts, p0)
        read_count == try_from_next_u64(parts, p0 + 1)
        read_merged_count == try_from_next_u64(parts, p0 + 2)
        read_sectors == try_from_next_u64(parts, p0 + 3)
        read_bytes == sectors_to_bytes(read_sectors.val, checks)
        p1 == p0 + 4 + 1
        write_count == try_from_next_u64(parts, p1)
        write_merged_count == try_from_next_u64(parts, p1 + 1)
        write_sectors == try_from_next_u64(parts, p1 + 2)
        write_bytes == sectors_to_bytes(write_sectors.val, checks)
        p2 == p1 + 3
        seconds == try_from_next_u64(parts, p2)
    IN IF name.tag # "Ok" THEN name
       ELSE IF read_count.tag # "Ok" THEN read_count
       ELSE IF read_merged_count.tag # "Ok" THEN read_merged_count
       ELSE IF read_sectors.tag # "Ok" THEN read_sectors
       ELSE IF read_bytes.tag # "Ok" THEN read_bytes
       ELSE IF write_count.tag # "Ok" THEN write_count
       ELSE IF write_merged_count.tag # "Ok" THEN write_merged_count
       ELSE IF write_sectors.tag # "Ok" THEN write_sectors
       ELSE IF write_bytes.tag # "Ok" THEN write_bytes
       ELSE IF seconds.tag # "Ok" THEN seconds
       ELSE Ok([name |-> name.val,
                read_count |-> read_count.val,
                read_merged_count |-> read_merged_count.val,
                read_bytes |-> read_bytes.val,
                write_count |-> write_count.val,
                write_merged_count |-> write_merged_count.val,
                write_bytes |-> write_bytes.val,
                busy_time |-> AsF64(seconds.val)])

(* from_str: skip two columns, then name, reads completed, reads merged,
   sectors read; skip one; writes completed, writes merged, sectors
   written; skip two; the thirteenth token is the busy time.  Each `?`
   returns the first failure; the multiplications happen in field order. *)
from_str(s, checks) ==
    LET parts == split_whitespace(s)
        p0 == 2
        name == try_from_next_string(parts, p0)
        read_count == try_from_next_u64(parts, p0 + 1)
        read_merged_count == try_from_next_u64(parts, p0 + 2)
        read_sectors == try_from_next_u64(parts, p0 + 3)
        read_bytes == sectors_to_bytes(read_sectors.val, checks)
        p1 == p0 + 4 + 1
        write_count == try_from_next_u64(parts, p1)
        write_merged_count == try_from_next_u64(parts, p1 + 1)
        write_sectors == try_from_next_u64(parts, p1 + 2)
        write_bytes == sectors_to_bytes(write_sectors.val, checks)
        p2 == p1 + 3 + 2
        seconds == try_from_next_u64(parts, p2)
    IN IF name.tag # "Ok" THEN name
       ELSE IF read_count.tag # "Ok" THEN read_count
       ELSE IF read_merged_count.tag # "Ok" THEN read_merged_count
       ELSE IF read_sectors.tag # "Ok" THEN read_sectors
       ELSE IF read_bytes.tag # "Ok" THEN read_bytes
       ELSE IF write_count.tag # "Ok" THEN write_count
       ELSE IF write_merged_count.tag # "Ok" THEN write_merged_count
       ELSE IF write_sectors.tag # "Ok" THEN write_sectors
       ELSE IF write_bytes.tag # "Ok" THEN write_bytes
       ELSE IF seconds.tag # "Ok" THEN seconds
       ELSE Ok([name |-> name.val,
                read_count |-> read_count.val,
                read_merged_count |-> read_merged_count.val,
                read_bytes |-> read_bytes.val,
                write_count |-> write_count.val,
                write_merged_count |-> write_merged_count.val,
                write_bytes |-> write_bytes.val,
                busy_time |-> AsF64(seconds.val)])

----------------------------------------------------------------------------
(* Lines given to the parser                                               *)

(* A /proc/diskstats line of the documented layout; the first eleven
   tokens are those of the line "8 0 sda 100 5 51200 10 20 2 10240 20". *)
BaseLine ==
    <<<<"8">>,
      <<"0">>,
      <<"s", "d", "a">>,
      <<"1", "0", "0">>,
      <<"5">>,
      <<"5", "1", "2", "0", "0">>,
      <<"1", "0">>,
      <<"2", "0">>,
      <<"2">>,
      <<"1", "0", "2", "4", "0">>,
      <<"2", "0">>,
      <<"0">>,
      <<"3", "0">>,
      <<"4", "0">>>>

BaseToken(k) == IF k <= Len(BaseLine) THEN BaseLine[k] ELSE <<"0">>

(* 2^55: the least sector count whose byte count does not fit in a u64. *)
Sectors2p55 == <<"3", "6", "0", "2", "8", "7", "9", "7", "0", "1", "8", "9", "6", "3", "9", "6", "8">>
(* u64::MAX *)
U64Max == <<"1", "8", "4", "4", "6", "7", "4", "4", "0", "7", "3", "7", "0", "9", "5", "5", "1", "6", "1", "5">>
(* 2^64: no u64 *)
TooBig == <<"1", "8", "4", "4", "6", "7", "4", "4", "0", "7", "3", "7", "0", "9", "5", "5", "1", "6", "1", "6">>

TokenPool ==
    {<<"0">>, <<"7">>, <<"+", "5">>, <<"-", "1">>, <<"a", "b", "c">>,
     <<"1", ".", "5">>, Sectors2p55, U64Max, TooBig}

SectorPool == {BaseToken(6), Sectors2p55, U64Max}

Separators == {<<" ">>, <<" ", " ">>, <<"\t">>}

RECURSIVE Join(_, _)
Join(tokens, sep) ==
    IF tokens = <<>> THEN <<>>
    ELSE IF Len(tokens) = 1 THEN tokens[1]
    ELSE tokens[1] \o sep \o Join(Tail(tokens), sep)

BuildIdle == overflow_checks = FALSE

ParseIdle ==
    /\ line = <<>>
    /\ parsed = [tag |-> "None"]

(* The lines tried: a prefix of the base line, with the sectors-read token
   and one other token replaced, joined by one of the separators. *)
ParseInit ==
    /\ overflow_checks \in BOOLEAN
    /\ \E n \in 0..MaxTokens, i \in 0..MaxTokens, a \in TokenPool,
          b \in SectorPool, sep \in Separators :
          line = Join([k \in 1..n |-> IF k = i THEN a
                                      ELSE IF k = 6 THEN b
                                      ELSE BaseToken(k)], sep)
    /\ parsed = [tag |-> "None"]

(* line.parse::<IoCounters>() *)
FromStr ==
    /\ parsed.tag = "None"
    /\ parsed' = from_str(line, overflow_checks)
    /\ UNCHANGED <<line, overflow_checks>>
    /\ UNCHANGED notParse

ParseNext == FromStr

----------------------------------------------------------------------------
(* io_counters() and io_counters_physical()                                *)

DiskLines ==
    {
    <<" ", " ", " ", "8", " ", " ", " ", " ", " ", " ", " ", "0",
      " ", "s", "d", "a", " ", "1", "0", "0", " ", "5", " ", "5",
      "1", "2", "0", "0", " ", "1", "0", " ", "2", "0", " ", "2",
      " ", "1", "0", "2", "4", "0", " ", "2", "0", " ", "0", " ",
      "3", "0", " ", "4", "0">>,
    <<" ", " ", " ", "8", " ", " ", " ", " ", " ", " ", " ", "1",
      " ", "s", "d", "a", "1", " ", "1", " ", "0", " ", "8", " ",
      "0", " ", "0", " ", "0", " ", "0", " ", "0", " ", "0", " ",
      "0", " ", "0">>,
    <<" ", "1", "0", "4", " ", " ", " ", " ", " ", " ", " ", "0",
      " ", "c", "c", "i", "s", "s", "/", "c", "0", "d", "0", " ",
      "3", " ", "0", " ", "2", "4", " ", "1", " ", "2", " ", "0",
      " ", "1", "6", " ", "1", " ", "0", " ", "2", " ", "3">>,
    <<" ", " ", " ", "7", " ", " ", " ", " ", " ", " ", " ", "0",
      " ", "l", "o", "o", "p", "0", " ", "0", " ", "0">>,
    <<" ", " ", " ", "8", " ", " ", " ", " ", " ", " ", "1", "6",
      " ", "s", "d", "b", " ", "1", " ", "0", " ", "3", "6", "0",
      "2", "8", "7", "9", "7", "0", "1", "8", "9", "6", "3", "9",
      "6", "8", " ", "0", " ", "0", " ", "0", " ", "0", " ", "0",
      " ", "0", " ", "0", " ", "0">>,
    <<" ", " ", " ", "8", " ", " ", " ", " ", " ", " ", "3", "2",
      " ", "s", "d", "\\0", " ", "1", " ", "0", " ", "8", " ", "0",
      " ", "0", " ", "0", " ", "0", " ", "0", " ", "0", " ", "0",
      " ", "0">>
    }

(* What libc::access(path, F_OK) may give: 0, or -1 with errno ENOENT (no
   such entry) or with another errno (EACCES: the call itself failed). *)
AccessResults == {"0", "ENOENT", "EACCES"}

SysBlock == <<"/", "s", "y", "s", "/", "b", "l", "o", "c", "k", "/">>

(* str::replace("/", "!") *)
replace_slash(name) ==
    [i \in 1..Len(name) |-> IF name[i] = "/" THEN "!" ELSE name[i]]

(* CString::new(format!("/sys/block/{}", ...)).expect(...): a NUL byte in
   the name is a panic. *)
device_path(name) ==
    IF \E i \in 1..Len(name) : name[i] = "\\0" THEN Panic
    ELSE Ok(SysBlock \o replace_slash(name))

(* utils::fs::read_lines_into parses each line with from_str; the results
   for the lines of the table, computed once. *)
LineParsed == [l \in DiskLines |-> [checks \in BOOLEAN |-> from_str(l, checks)]]

RECURSIVE ParsedFrom(_, _, _)
ParsedFrom(lines, i, checks) ==
    IF i > Len(lines) THEN <<>>
    ELSE LET r == LineParsed[lines[i]][checks]
         IN IF r.tag = "Ok" THEN <<r.val>> \o ParsedFrom(lines, i + 1, checks)
            ELSE <<>>

(* The records io_counters() yields for a table: one per line, in order,
   up to the first line that does not parse. *)
io_counters(lines, checks) == ParsedFrom(lines, 1, checks)

StreamIdle ==
    /\ source_exists = TRUE
    /\ table = <<>>
    /\ pos = 0
    /\ inflight = <<>>
    /\ blocked = FALSE
    /\ probed = <<>>
    /\ yielded = <<>>
    /\ status = "running"
    /\ failure = "none"

StreamInit ==
    /\ overflow_checks \in BOOLEAN
    /\ source_exists \in BOOLEAN
    /\ \E n \in 0..MaxLines : table \in [1..n -> DiskLines]
    /\ pos = 0
    /\ inflight = <<>>
    /\ blocked = FALSE
    /\ probed = <<>>
    /\ yielded = <<>>
    /\ status = "running"
    /\ failure = "none"

(* The source step of a combinator that does not wait for the probe in
   flight before it pulls the next record. *)
PollSourceEager ==
    /\ status = "running"
    /\ IF ~source_exists
       THEN /\ status' = "failed" /\ failure' = "Io"
            /\ UNCHANGED <<pos, inflight>>
       ELSE IF pos = Len(table)
       THEN /\ inflight = <<>>
            /\ status' = "done"
            /\ UNCHANGED <<pos, inflight, failure>>
       ELSE LET r == LineParsed[table[pos + 1]][overflow_checks]
                path == device_path(r.val.name)
            IN IF r.tag = "Err"
               THEN /\ status' = "failed" /\ failure' = r.kind
                    /\ UNCHANGED <<pos, inflight>>
               ELSE IF r.tag = "Panic"
               THEN /\ status' = "panicked" /\ failure' = "overflow"
                    /\ UNCHANGED <<pos, inflight>>
               ELSE IF path.tag = "Panic"
               THEN /\ status' = "panicked" /\ failure' = "Malformed device path"
                    /\ pos' = pos + 1
                    /\ UNCHANGED inflight
               ELSE /\ pos' = pos + 1
                    /\ inflight' = Append(inflight, [device |-> r.val, path |-> path.val])
                    /\ UNCHANGED <<status, failure>>
    /\ UNCHANGED <<source_exists, table, blocked, probed, yielded>>
    /\ UNCHANGED notStream

(* AndThen::poll with no future in hand polls io_counters(): the source
   cannot be opened, the table is exhausted, the next line fails to parse,
   or it parses and the closure calls is_storage_device(), which builds the
   path and returns the future that AndThen keeps. *)
PollSource ==
    /\ status = "running"
    /\ inflight = <<>>
    /\ IF ~source_exists
       THEN /\ status' = "failed" /\ failure' = "Io"
            /\ UNCHANGED <<pos, inflight>>
       ELSE IF pos = Len(table)
       THEN /\ status' = "done"
            /\ UNCHANGED <<pos, inflight, failure>>
       ELSE LET r == LineParsed[table[pos + 1]][overflow_checks]
                path == device_path(r.val.name)
            IN IF r.tag = "Err"
               THEN /\ status' = "failed" /\ failure' = r.kind
                    /\ UNCHANGED <<pos, inflight>>
               ELSE IF r.tag = "Panic"
               THEN /\ status' = "panicked" /\ failure' = "overflow"
                    /\ UNCHANGED <<pos, inflight>>
               ELSE IF path.tag = "Panic"
               THEN /\ status' = "panicked" /\ failure' = "Malformed device path"
                    /\ pos' = pos + 1
                    /\ UNCHANGED inflight
               ELSE /\ pos' = pos + 1
                    /\ inflight' = Append(inflight, [device |-> r.val, path |-> path.val])
                    /\ UNCHANGED <<status, failure>>
    /\ UNCHANGED <<source_exists, table, blocked, probed, yielded>>
    /\ UNCHANGED notStream

(* blocking() returns NotReady: the pool has no blocking capacity left and
   the task is polled again later. *)
ProbeNotReady ==
    /\ status = "running"
    /\ inflight # <<>>
    /\ ~blocked
    /\ blocked' = TRUE
    /\ UNCHANGED <<source_exists, table, pos, inflight, probed, yielded, status, failure>>
    /\ UNCHANGED notStream

(* blocking() returns Err (the task does not run on a pool worker, or the
   pool is gone): map_err's closure panics. *)
ProbePanic ==
    /\ status = "running"
    /\ inflight # <<>>
    /\ status' = "panicked"
    /\ failure' = "The tokio threadpool shut down"
    /\ UNCHANGED <<source_exists, table, pos, inflight, blocked, probed, yielded>>
    /\ UNCHANGED notStream

(* A probe step that yields the record whatever the probe said. *)
ProbeCompleteNoFilter ==
    /\ status = "running"
    /\ inflight # <<>>
    /\ \E result \in AccessResults :
          LET f == Head(inflight)
              value == (result = "0")
          IN /\ probed' = Append(probed, [device |-> f.device, path |-> f.path,
                                           result |-> result, value |-> value])
             /\ yielded' = Append(yielded, f.device)
    /\ inflight' = Tail(inflight)
    /\ blocked' = FALSE
    /\ UNCHANGED <<source_exists, table, pos, status, failure>>
    /\ UNCHANGED notStream

(* blocking() runs the closure: access(path, F_OK) and `result == 0`.  The
   future resolves to (value, device), AndThen lets go of it, and filter_map
   yields the device when the value is true and drops it otherwise. *)
ProbeComplete ==
    /\ status = "running"
    /\ inflight # <<>>
    /\ \E result \in AccessResults :
          LET f == Head(inflight)
              value == (result = "0")
          IN /\ probed' = Append(probed, [device |-> f.device, path |-> f.path,
                                           result |-> result, value |-> value])
             /\ yielded' = IF value THEN Append(yielded, f.device) ELSE yielded
    /\ inflight' = Tail(inflight)
    /\ blocked' = FALSE
    /\ UNCHANGED <<source_exists, table, pos, status, failure>>
    /\ UNCHANGED notStream

(* The consumer abandons the stream before its end. *)
Drop ==
    /\ status = "running"
    /\ status' = "dropped"
    /\ UNCHANGED <<source_exists, table, pos, inflight, blocked, probed, yielded, failure>>
    /\ UNCHANGED notStream

StreamNext ==
    \/ PollSource
    \/ ProbeNotReady
    \/ ProbePanic
    \/ ProbeComplete
    \/ Drop

----------------------------------------------------------------------------
(* Properties of the parser                                                *)

(* "8 0 sda 100 5 51200 10 20 2 10240 20" *)
ExampleLine ==
    <<"8", " ", "0", " ", "s", "d", "a", " ", "1", "0", "0", " ",
      "5", " ", "5", "1", "2", "0", "0", " ", "1", "0", " ", "2",
      "0", " ", "2", " ", "1", "0", "2", "4", "0", " ", "2", "0">>

(* "8 0 sda 100 5 51200 10 20 2 10240 20 0 30" *)
ExampleLine13 ==
    <<"8", " ", "0", " ", "s", "d", "a", " ", "1", "0", "0", " ",
      "5", " ", "5", "1", "2", "0", "0", " ", "1", "0", " ", "2",
      "0", " ", "2", " ", "1", "0", "2", "4", "0", " ", "2", "0",
      " ", "0", " ", "3", "0">>

Parts == split_whitespace(line)
ConsumedNumeric == {4, 5, 6, 8, 9, 10, 13}
ValidU64(tok) == ParseU64(tok).tag = "Ok"
Returned == parsed.tag # "None"

ExampleFields(r) ==
    /\ r.name = <<"s", "d", "a">>
    /\ r.read_count = ToU64(100)
    /\ r.read_merged_count = ToU64(5)
    /\ r.read_bytes = ToU64(51200 * 512)
    /\ r.write_count = ToU64(20)
    /\ r.write_merged_count = ToU64(2)
    /\ r.write_bytes = ToU64(10240 * 512)

(* C5 as stated: parsing "8 0 sda 100 5 51200 10 20 2 10240 20" succeeds
   with name sda, read_count 100, read_merged_count 5, read_bytes
   51200*512, write_count 20, write_merged_count 2, write_bytes 10240*512
   and the busy time taken from the following field (20). *)
C5_Original ==
    (line = ExampleLine /\ Returned) =>
        /\ parsed.tag = "Ok"
        /\ ExampleFields(parsed.val)
        /\ parsed.val.busy_time = AsF64(ToU64(20))

(* C5 amended: parsing "8 0 sda 100 5 51200 10 20 2 10240 20" returns an
   Error, since the line has eleven tokens and the busy time is the
   thirteenth; the same line followed by "0 30" parses to name sda,
   read_count 100, read_merged_count 5, read_bytes 51200*512, write_count
   20, write_merged_count 2, write_bytes 10240*512 and busy time 30 s. *)
C5_ExampleLine ==
    /\ (line = ExampleLine /\ Returned) => parsed.tag = "Err"
    /\ (line = ExampleLine13 /\ Returned) =>
          /\ parsed.tag = "Ok"
          /\ ExampleFields(parsed.val)
          /\ parsed.val.busy_time = AsF64(ToU64(30))

C5_Witness == line = ExampleLine /\ parsed.tag = "Err"

(* C6: a line with fewer than thirteen tokens, or with a consumed numeric
   token that is no unsigned integer, makes from_str return an Error: no
   panic and no record. *)
C6_ShortOrBadLineIsError ==
    (/\ Returned
     /\ \/ Len(Parts) < 13
        \/ \E k \in ConsumedNumeric : k <= Len(Parts) /\ ~ValidU64(Parts[k]))
    => parsed.tag = "Err"

(* C7: on a well-formed line from_str succeeds and read_bytes and
   write_bytes are exactly 512 times the sector tokens, whatever the 64-bit
   sector count: no wrap-around and no panic. *)
C7_BytesAreExact ==
    (/\ Returned
     /\ Len(Parts) >= 13
     /\ \A k \in ConsumedNumeric : ValidU64(Parts[k]))
    => /\ parsed.tag = "Ok"
       /\ parsed.val.read_bytes \o <<0>>
             = MulExact(ParseU64(Parts[6]).val, DISK_SECTOR_SIZE)
       /\ parsed.val.write_bytes \o <<0>>
             = MulExact(ParseU64(Parts[10]).val, DISK_SECTOR_SIZE)

----------------------------------------------------------------------------
(* Properties of CLOCK_TICKS                                               *)

RECURSIVE PanicsUpTo(_)
PanicsUpTo(t) ==
    IF t = 0 THEN 0
    ELSE Len(SelectSeq(observed[t], LAMBDA o : o = <<>>)) + PanicsUpTo(t - 1)

(* Accesses that ended in a panic, and accesses that ended at all. *)
PanicCount == PanicsUpTo(NumThreads)

RECURSIVE FinishedUpTo(_)
FinishedUpTo(t) == IF t = 0 THEN 0 ELSE Len(observed[t]) + FinishedUpTo(t - 1)

FinishedCount == FinishedUpTo(NumThreads)

C1_State ==
    once_state # "POISONED" =>
        /\ queries <= 1
        /\ once_state = "COMPLETE" => (queries = 1 /\ cell # <<>>)
        /\ \A t \in Threads : \A i \in 1..Len(observed[t]) :
              /\ observed[t][i] # <<>>
              /\ observed[t][i] = cell

C1_Step ==
    once_state = "COMPLETE" =>
        /\ once_state' = "COMPLETE"
        /\ queries' = queries
        /\ cell' = cell

(* C1: while the query returns a positive value, whatever the interleaving
   of the threads, the body of clock_ticks() runs once, every access
   observes the one cached value, and once the value is cached no access
   runs the query again or changes the value. *)
C1_QueryRunsOnce == []C1_State /\ [][C1_Step]_vars

C1_Witness ==
    /\ queries = 1
    /\ \A t \in Threads :
          /\ Len(observed[t]) = MaxAccesses
          /\ \A i \in 1..MaxAccesses : observed[t][i] = cell /\ cell # <<>>

(* C2 as stated: after a first access that failed, a second access runs the
   privileged query again. *)
C2_Original == (PanicCount >= 1 /\ FinishedCount >= 2) => queries >= 2

(* C2 amended: when the query returns a non-positive value on the first
   access, the access panics, no value is cached and the Once is left
   poisoned: every later access panics too and the query is not run
   again. *)
C2_FailurePoisons ==
    PanicCount >= 1 =>
        /\ once_state = "POISONED"
        /\ cell = <<>>
        /\ queries = 1
        /\ \A t \in Threads : \A i \in 1..Len(observed[t]) : observed[t][i] = <<>>

C2_Witness == PanicCount >= 2 /\ queries = 1 /\ once_state = "POISONED"

----------------------------------------------------------------------------
(* Properties of io_counters_physical()                                    *)

Devices(ps) == [i \in 1..Len(ps) |-> ps[i].device]
ProbedTrue == SelectSeq(probed, LAMBDA p : p.result = "0")
AllRecords == io_counters(table, overflow_checks)

(* C3: what io_counters_physical() has yielded is, at every moment, the
   records whose probe returned true, in the order of the table; the
   records it has probed are a prefix of what io_counters() yields for the
   same table; and when the enumeration ends normally every record of
   io_counters() has been probed, so the result is that sequence with the
   records whose probe was not true removed. *)
C3_OrderedSubsequence ==
    /\ yielded = Devices(ProbedTrue)
    /\ Len(probed) + Len(inflight) <= Len(AllRecords)
    /\ Devices(probed) \o Devices(inflight)
          = SubSeq(AllRecords, 1, Len(probed) + Len(inflight))
    /\ status = "done" => (inflight = <<>> /\ Devices(probed) = AllRecords)

C3_Witness ==
    /\ status = "done"
    /\ Len(probed) = 3
    /\ Len(yielded) = 2
    /\ yielded[1] # yielded[2]
    /\ probed[2].result # "0"

(* C4: a failed predicate call (access() failing for another reason than
   the path not existing, or the blocking dispatch failing) ends the
   enumeration with an Error: the record is not dropped as "false" with the
   enumeration going on, and nothing panics. *)
C4_ProbeFailureIsError ==
    /\ failure # "The tokio threadpool shut down"
    /\ \A i \in 1..Len(probed) :
          probed[i].result = "EACCES" => (status = "failed" /\ i = Len(probed))

(* C10: the probes of one enumeration are sequential: at most one is in
   flight, also when the stream is abandoned; no record is pulled from
   io_counters() before the probe of the one before it has completed; and
   every yielded record has a completed probe that said true. *)
C10_OneProbeAtATime ==
    /\ Len(inflight) <= 1
    /\ pos <= Len(probed) + 1
    /\ \A i \in 1..Len(yielded) :
          \E j \in 1..Len(probed) :
              probed[j].device = yielded[i] /\ probed[j].value

C10_Witness ==
    /\ status = "dropped"
    /\ Len(inflight) = 1
    /\ pos = 2
    /\ Len(yielded) = 1

----------------------------------------------------------------------------
(* heim_common::Error                                                      *)

(* The failures Error has a From for, with messages their Display gives.
   string::ParseError has no values, so From<string::ParseError> is never
   called. *)
PlainCauses ==
    {[type |-> "io::Error", msg |-> "No such file or directory (os error 2)"],
     [type |-> "io::Error", msg |-> "Permission denied (os error 13)"],
     [type |-> "ParseIntError", msg |-> "invalid digit found in string"],
     [type |-> "ParseIntError", msg |-> "cannot parse integer from empty string"],
     [type |-> "ParseIntError", msg |-> "number too large to fit in target type"],
     [type |-> "ParseFloatError", msg |-> "invalid float literal"],
     [type |-> "ParseFloatError", msg |-> "cannot parse float from empty string"],
     [type |-> "NulError", msg |-> "nul byte found in provided data at position: 0"],
     [type |-> "IntoStringError", msg |-> "C string contained non-utf8 bytes"],
     [type |-> "FromUtf8Error", msg |-> "invalid utf-8 sequence of 1 bytes from index 0"],
     [type |-> "UnboundedSendError", msg |-> "channel closed"],
     [type |-> "AddrParseError", msg |-> "invalid IP address syntax"],
     [type |-> "nix::Error", msg |-> "EPERM: Operation not permitted"],
     [type |-> "nix::Error", msg |-> "Invalid path"]}

(* Box<T>, T: Error + Send: Display of the box is Display of T. *)
BoxedCauses == {[type |-> "Box", msg |-> c.msg, inner |-> c.type] : c \in PlainCauses}

NoCause == [type |-> "none"]
NotMade == [tag |-> "None"]

(* io::Error::new(io::ErrorKind::Other, e): Display is that of e. *)
io_error_new_other(e) == [type |-> "io::Error", msg |-> e.msg]

(* io::Error::last_os_error() for the errno values of the thread. *)
OsErrors ==
    {[type |-> "io::Error", msg |-> "No such file or directory (os error 2)"],
     [type |-> "io::Error", msg |-> "Invalid argument (os error 22)"],
     [type |-> "io::Error", msg |-> "Success (os error 0)"]}

(* Error::new *)
Error_new(kind) == [kind |-> kind]

(* The From impls. *)
Error_from(e) ==
    CASE e.type = "io::Error" -> Ok([kind |-> [variant |-> "Io", e |-> e]])
      [] e.type = "ParseIntError" -> Ok([kind |-> [variant |-> "ParseInt", e |-> e]])
      [] e.type = "ParseFloatError" -> Ok([kind |-> [variant |-> "ParseFloat", e |-> e]])
      [] e.type = "NulError" -> Ok([kind |-> [variant |-> "FromNul", e |-> e]])
      [] e.type = "IntoStringError" -> Ok([kind |-> [variant |-> "FromFfiString", e |-> e]])
      [] e.type = "FromUtf8Error" -> Ok([kind |-> [variant |-> "FromUtf8", e |-> e]])
      [] e.type = "UnboundedSendError" ->
            Ok([kind |-> [variant |-> "Io", e |-> io_error_new_other(e)]])
      [] e.type = "AddrParseError" -> Ok([kind |-> [variant |-> "Parse"]])
      [] e.type = "Box" -> Ok([kind |-> [variant |-> "Other", e |-> e]])
      [] e.type = "nix::Error" -> Panic

(* Display for Error *)
Error_fmt(err) ==
    IF err.kind.variant = "Parse" THEN "Unable to parse" ELSE err.kind.e.msg

ErrIdle ==
    /\ err_cause = NoCause
    /\ err_via = "none"
    /\ err_value = NotMade
    /\ err_shown = "none"

ErrInit == ErrIdle

(* A fallible operation fails with one of the underlying failures. *)
Fail ==
    /\ err_cause = NoCause
    /\ err_value = NotMade
    /\ \E e \in PlainCauses \cup BoxedCauses : err_cause' = e
    /\ UNCHANGED <<err_via, err_value, err_shown>>
    /\ UNCHANGED notErr

(* `?` or .into() converts the failure. *)
ConvertFrom ==
    /\ err_cause # NoCause
    /\ err_value = NotMade
    /\ err_value' = Error_from(err_cause)
    /\ err_via' = "From"
    /\ UNCHANGED <<err_cause, err_shown>>
    /\ UNCHANGED notErr

(* Error::new(kind) with a kind the caller built. *)
New ==
    /\ err_cause = NoCause
    /\ err_value = NotMade
    /\ \E kind \in {[variant |-> "Parse"]}
                   \cup {[variant |-> "Io", e |-> e] : e \in OsErrors}
                   \cup {[variant |-> "Other", e |-> e] : e \in BoxedCauses} :
          err_value' = Ok(Error_new(kind))
    /\ err_via' = "new"
    /\ UNCHANGED <<err_cause, err_shown>>
    /\ UNCHANGED notErr

(* Error::last_os_error() *)
LastOsError ==
    /\ err_cause = NoCause
    /\ err_value = NotMade
    /\ \E e \in OsErrors :
          /\ err_cause' = e
          /\ err_value' = Error_from(e)
    /\ err_via' = "last_os_error"
    /\ UNCHANGED err_shown
    /\ UNCHANGED notErr

(* The Error is formatted with Display. *)
Show ==
    /\ err_value.tag = "Ok"
    /\ err_shown = "none"
    /\ err_shown' = Error_fmt(err_value.val)
    /\ UNCHANGED <<err_cause, err_via, err_value>>
    /\ UNCHANGED notErr

ErrNext == Fail \/ ConvertFrom \/ New \/ LastOsError \/ Show

----------------------------------------------------------------------------
(* The provider dispatch of heim-disk and heim-net: sys/mod.rs             *)

TargetOS ==
    {"linux", "android", "windows", "macos", "ios", "freebsd", "dragonfly",
     "openbsd", "netbsd", "solaris", "fuchsia", "redox", "haiku", "unknown"}

(* cfg(unix): target_family = "unix" *)
cfg_unix(os) == os \notin {"windows", "unknown"}

CfgIdle ==
    /\ target_os = "linux"
    /\ disk_pc = "family"
    /\ disk_mods = {}
    /\ net_pc = "family"
    /\ net_mods = {}
    /\ diagnostics = {}

CfgInit ==
    /\ target_os \in TargetOS
    /\ disk_pc = "family"
    /\ disk_mods = {}
    /\ net_pc = "family"
    /\ net_mods = {}
    /\ diagnostics = {}

(* heim-disk: cfg_if! { if #[cfg(unix)] { mod unix; ... } } *)
DiskFamily ==
    /\ disk_pc = "family"
    /\ disk_mods' = IF cfg_unix(target_os) THEN disk_mods \cup {"unix"} ELSE disk_mods
    /\ disk_pc' = "os"
    /\ UNCHANGED <<target_os, net_pc, net_mods, diagnostics>>
    /\ UNCHANGED notCfg

(* heim-disk: the target_os chain, ending in compile_error!. *)
DiskOs ==
    /\ disk_pc = "os"
    /\ IF target_os = "linux"
       THEN disk_mods' = disk_mods \cup {"linux"} /\ disk_pc' = "done"
                /\ UNCHANGED diagnostics
       ELSE IF target_os = "windows"
       THEN disk_mods' = disk_mods \cup {"windows"} /\ disk_pc' = "done"
                /\ UNCHANGED diagnostics
       ELSE IF target_os = "macos"
       THEN disk_mods' = disk_mods \cup {"macos"} /\ disk_pc' = "done"
                /\ UNCHANGED diagnostics
       ELSE IF target_os = "android"
       THEN disk_mods' = disk_mods \cup {"linux"} /\ disk_pc' = "done"
                /\ UNCHANGED diagnostics
       ELSE /\ diagnostics' = diagnostics \cup {<<"heim-disk", "Unsupported OS">>}
            /\ disk_pc' = "error"
            /\ UNCHANGED disk_mods
    /\ UNCHANGED <<target_os, net_pc, net_mods>>
    /\ UNCHANGED notCfg

(* heim-net: #[cfg(unix)] mod unix; #[cfg(unix)] pub use self::unix::*; *)
NetFamily ==
    /\ net_pc = "family"
    /\ net_mods' = IF cfg_unix(target_os) THEN net_mods \cup {"unix"} ELSE net_mods
    /\ net_pc' = "os"
    /\ UNCHANGED <<target_os, disk_pc, disk_mods, diagnostics>>
    /\ UNCHANGED notCfg

(* heim-net: the target_os chain; it has no else branch. *)
NetOs ==
    /\ net_pc = "os"
    /\ net_mods' = IF target_os \in {"linux", "android"} THEN net_mods \cup {"linux"}
                   ELSE IF target_os = "macos" THEN net_mods \cup {"macos"}
                   ELSE IF target_os = "windows" THEN net_mods \cup {"windows"}
                   ELSE net_mods
    /\ net_pc' = "done"
    /\ UNCHANGED <<target_os, disk_pc, disk_mods, diagnostics>>
    /\ UNCHANGED notCfg

CfgNext == DiskFamily \/ DiskOs \/ NetFamily \/ NetOs

----------------------------------------------------------------------------
(* Specifications                                                          *)

ClockNext ==
    \E t \in Threads :
        \/ Access(t)
        \/ CallOnce(t)
        \/ Wake(t)
        \/ clock_ticks(t)
        \/ Complete(t)
        \/ Deref(t)

InitClock == ClockInit /\ BuildIdle /\ ParseIdle /\ StreamIdle /\ ErrIdle /\ CfgIdle

SpecClock == InitClock /\ [][ClockNext]_vars

InitParse == ParseInit /\ ClockIdle /\ StreamIdle /\ ErrIdle /\ CfgIdle

SpecParse == InitParse /\ [][ParseNext]_vars

InitStream == StreamInit /\ ClockIdle /\ ParseIdle /\ ErrIdle /\ CfgIdle

SpecStream == InitStream /\ [][StreamNext]_vars

InitErr == ErrInit /\ ClockIdle /\ BuildIdle /\ ParseIdle /\ StreamIdle /\ CfgIdle

SpecErr == InitErr /\ [][ErrNext]_vars

InitCfg == CfgInit /\ ClockIdle /\ BuildIdle /\ ParseIdle /\ StreamIdle /\ ErrIdle

SpecCfg == InitCfg /\ [][CfgNext]_vars

----------------------------------------------------------------------------
(* Properties of Error and of the provider dispatch                        *)

(* C8: every From conversion returns an Error (no panic) that keeps the
   cause, so Display of the Error is the cause's message; the fixed
   "Unable to parse" is shown only for an Error built directly with the
   generic-parse kind. *)
C8_ConversionsAreLossless ==
    /\ (err_via = "From" /\ err_value # NotMade) =>
          /\ err_value.tag = "Ok"
          /\ err_shown # "none" => err_shown = err_cause.msg
    /\ err_shown = "Unable to parse" => err_via = "new"

OsProviders(mods) == mods \ {"unix"}

(* C9: in both dispatch modules the expansion ends with exactly one
   OS-level provider compiled in, or with a compile error; no target
   compiles with no OS-level provider. *)
C9_OneProviderOrCompileError ==
    /\ disk_pc = "done" => Cardinality(OsProviders(disk_mods)) = 1
    /\ disk_pc = "error" => \E d \in diagnostics : d[1] = "heim-disk"
    /\ net_pc = "done" => Cardinality(OsProviders(net_mods)) = 1
    /\ net_pc = "error" => \E d \in diagnostics : d[1] = "heim-net"

====
